---- MODULE Spec2Model ----
(***************************************************************************)
(* CoreManager (src/tribler/gui/core_manager.py): the GUI-side supervisor  *)
(* of the Tribler core process.  The fields of the object are the          *)
(* variables; every method and every Qt slot is one action; the signals    *)
(* of the collaborators (EventRequestManager, UpgradeManager, QProcess,    *)
(* AppManager) are the environment.                                        *)
(***************************************************************************)
EXTENDS Integers, Sequences, FiniteSets, TLC

\* ------------------------------------------------------------------ bounds
\* stop() may be called this many times in one session.
MaxStopCalls == 2
\* QProcess objects one session may create when the launch entry point is
\* also called directly (SpecRelaunch).
MaxSpawns == 2

\* ------------------------------------------------------------ value sets
None == "None"

\* Chunks of bytes readAllStandardOutput/Error may return: blank only;
\* U+00E9 (0xC3 0xA9) and a newline; two lines "a\nb"; a sequence cut after
\* its lead byte 0xC3; a stray 0xFF after text.
Chunks == {<<32>>, <<195, 169, 10>>, <<97, 10, 98>>, <<195>>, <<97, 255>>}

\* Values start() may be given for core_args / core_env.
CoreArgsValues == {None, "custom_args"}
CoreEnvValues == {None, "custom_env"}
UpgradeManagerValues == {None, "UpgradeManager"}

\* exit_code and exit_status (QProcess.NormalExit = 0, CrashExit = 1); 1000
\* is no error number of any platform.
ExitCodes == {0, 1, 1000}
ExitStatuses == {0, 1}

VARIABLES
    \* CoreManager fields (__init__, lines 28-49)
    core_process,       \* None (0) or the index in procs of the QProcess held
    upgrade_manager,
    core_args,
    core_env,
    core_started,
    core_running,
    core_connected,
    shutting_down,
    core_finished,
    should_quit_app_on_core_finished,
    use_existing_core,
    last_core_stdout_output,
    last_core_stderr_output,
    \* signal/slot connections made by the code
    reply_error_slot,        \* reply.error -> on_event_manager_initial_error
    upgrader_finished_slot,  \* upgrader_finished -> start_tribler_core
    \* collaborators
    procs,                   \* the QProcess objects created, in order
    upgrader,                \* "idle", "running", "finished"
    events_manager_shutting_down,
    connect_timer,           \* None, "inactive", "active"
    quitting_app,            \* app_manager.quitting_app
    \* what the callers and the signals did so far
    start_called,            \* "no", "run_core", "passive"
    reply_error_emitted,
    connected_emitted,
    stop_calls,
    \* observation of the last step
    calls,                   \* calls made to collaborators and loggers, in order
    last_call,               \* the method or slot that ran last
    raised,                  \* the exception it let escape, or None
    error_messages           \* format_error_message's calls: the arguments and the
                             \* message logged and carried by CoreCrashedError

fields == <<core_process, upgrade_manager, core_args, core_env, core_started,
            core_running, core_connected, shutting_down, core_finished,
            should_quit_app_on_core_finished, use_existing_core,
            last_core_stdout_output, last_core_stderr_output>>
slots == <<reply_error_slot, upgrader_finished_slot>>
collaborators == <<procs, upgrader, events_manager_shutting_down, connect_timer,
                   quitting_app>>
history == <<start_called, reply_error_emitted, connected_emitted, stop_calls>>
observed == <<calls, last_call, raised, error_messages>>
vars == <<fields, slots, collaborators, history, observed>>

\* ------------------------------------------------------ text conversions
DecodeError == <<-1>>

\* Number of bytes of the UTF-8 sequence a lead byte opens; 0: not a lead byte.
Utf8SeqLen(b) ==
    IF b < 128 THEN 1
    ELSE IF b >= 194 /\ b <= 223 THEN 2
    ELSE IF b >= 224 /\ b <= 239 THEN 3
    ELSE IF b >= 240 /\ b <= 244 THEN 4
    ELSE 0

\* The second byte's range depends on the lead byte (no overlong forms, no
\* surrogates, nothing above U+10FFFF); later bytes are 0x80..0xBF.
Utf8SecondOk(b0, b1) ==
    IF b0 = 224 THEN b1 >= 160 /\ b1 <= 191
    ELSE IF b0 = 237 THEN b1 >= 128 /\ b1 <= 159
    ELSE IF b0 = 240 THEN b1 >= 144 /\ b1 <= 191
    ELSE IF b0 = 244 THEN b1 >= 128 /\ b1 <= 143
    ELSE b1 >= 128 /\ b1 <= 191

Utf8ContinuationOk(raw, n) ==
    /\ n > 1 => Utf8SecondOk(raw[1], raw[2])
    /\ \A i \in 3..n : raw[i] >= 128 /\ raw[i] <= 191

Utf8CodePoint(raw, n) ==
    IF n = 1 THEN raw[1]
    ELSE IF n = 2 THEN (raw[1] - 192) * 64 + (raw[2] - 128)
    ELSE IF n = 3 THEN (raw[1] - 224) * 4096 + (raw[2] - 128) * 64 + (raw[3] - 128)
    ELSE (raw[1] - 240) * 262144 + (raw[2] - 128) * 4096
            + (raw[3] - 128) * 64 + (raw[4] - 128)

\* bytes.decode("utf-8"), errors="strict": the code points, or DecodeError
\* where Python raises UnicodeDecodeError.
RECURSIVE decode_utf8(_)
decode_utf8(raw) ==
    IF raw = <<>> THEN <<>>
    ELSE LET n == Utf8SeqLen(raw[1])
         IN  IF n = 0 \/ Len(raw) < n THEN DecodeError
             ELSE IF ~Utf8ContinuationOk(raw, n) THEN DecodeError
             ELSE LET rest == decode_utf8(SubSeq(raw, n + 1, Len(raw)))
                  IN  IF rest = DecodeError THEN DecodeError
                      ELSE <<Utf8CodePoint(raw, n)>> \o rest

\* str.isspace() for one code point.
IsSpace(c) ==
    \/ c >= 9 /\ c <= 13
    \/ c >= 28 /\ c <= 32
    \/ c \in {133, 160, 5760, 8232, 8233, 8239, 8287, 12288}
    \/ c >= 8192 /\ c <= 8202

RECURSIVE lstrip(_)
lstrip(s) == IF s # <<>> /\ IsSpace(s[1]) THEN lstrip(Tail(s)) ELSE s

RECURSIVE rstrip(_)
rstrip(s) ==
    IF s # <<>> /\ IsSpace(s[Len(s)]) THEN rstrip(SubSeq(s, 1, Len(s) - 1)) ELSE s

\* str.strip()
strip(s) == rstrip(lstrip(s))

Count(what, log) == Cardinality({i \in 1..Len(log) : log[i] = what})

\* ------------------------------------------------------------------ Init
\* CoreManager.__init__
Init ==
    /\ core_process = 0
    /\ upgrade_manager = None
    /\ core_args = None
    /\ core_env = None
    /\ core_started = FALSE
    /\ core_running = FALSE
    /\ core_connected = FALSE
    /\ shutting_down = FALSE
    /\ core_finished = FALSE
    /\ should_quit_app_on_core_finished = FALSE
    /\ use_existing_core = TRUE
    /\ last_core_stdout_output = <<>>
    /\ last_core_stderr_output = <<>>
    /\ reply_error_slot = FALSE
    /\ upgrader_finished_slot = FALSE
    /\ procs = <<>>
    /\ upgrader = "idle"
    /\ events_manager_shutting_down = FALSE
    /\ connect_timer = None
    /\ quitting_app = FALSE
    /\ start_called = "no"
    /\ reply_error_emitted = FALSE
    /\ connected_emitted = FALSE
    /\ stop_calls = 0
    /\ calls = <<>>
    /\ last_call = None
    /\ raised = None
    /\ error_messages = {}

\* ------------------------------------------------- CoreManager's methods
\* on_core_connected without the core_finished guard.
on_core_connected_unguarded ==
    /\ core_connected' = TRUE
    /\ UNCHANGED <<core_process, upgrade_manager, core_args, core_env, core_started,
                   core_running, shutting_down, core_finished,
                   should_quit_app_on_core_finished, use_existing_core,
                   last_core_stdout_output, last_core_stderr_output>>
    /\ UNCHANGED <<slots, collaborators, calls, error_messages>>
    /\ raised' = None

\* on_core_connected(self, _)
on_core_connected ==
    /\ core_connected' = (IF ~core_finished THEN TRUE ELSE core_connected)
    /\ UNCHANGED <<core_process, upgrade_manager, core_args, core_env, core_started,
                   core_running, shutting_down, core_finished,
                   should_quit_app_on_core_finished, use_existing_core,
                   last_core_stdout_output, last_core_stderr_output>>
    /\ UNCHANGED <<slots, collaborators, calls, error_messages>>
    /\ raised' = None

\* start that registers the error handler whatever run_core is.
start_ignoring_run_core(args, env, um, run_core) ==
    /\ calls' = Append(calls, "events_manager.connect")
    /\ core_args' = args
    /\ core_env' = env
    /\ upgrade_manager' = um
    /\ reply_error_slot' = TRUE
    /\ UNCHANGED <<core_process, core_started, core_running, core_connected,
                   shutting_down, core_finished, should_quit_app_on_core_finished,
                   use_existing_core, last_core_stdout_output,
                   last_core_stderr_output>>
    /\ UNCHANGED <<upgrader_finished_slot, collaborators, error_messages>>
    /\ raised' = None

\* start(self, core_args, core_env, upgrade_manager, run_core)
start(args, env, um, run_core) ==
    /\ calls' = Append(calls, "events_manager.connect")
    /\ IF run_core
       THEN /\ core_args' = args
            /\ core_env' = env
            /\ upgrade_manager' = um
            /\ reply_error_slot' = TRUE
       ELSE UNCHANGED <<core_args, core_env, upgrade_manager, reply_error_slot>>
    /\ UNCHANGED <<core_process, core_started, core_running, core_connected,
                   shutting_down, core_finished, should_quit_app_on_core_finished,
                   use_existing_core, last_core_stdout_output,
                   last_core_stderr_output>>
    /\ UNCHANGED <<upgrader_finished_slot, collaborators, error_messages>>
    /\ raised' = None

\* start_tribler_core that leaves use_existing_core as it was.
start_tribler_core_keeping_flag ==
    /\ UNCHANGED use_existing_core
    /\ LET env == IF core_env = None THEN "systemEnvironment+CORE_API_PORT+CORE_API_KEY+TSTATEDIR"
                  ELSE core_env
           args == IF core_args = None THEN "sys.argv+--core" ELSE core_args
       IN  procs' = Append(procs, [state |-> "starting", env |-> env, args |-> args])
    /\ core_process' = Len(procs) + 1
    /\ calls' = Append(calls, "QProcess.start")

\* start_tribler_core(self): the fields and collaborators it touches.  The
\* new QProcess is appended to procs and core_process refers to it.
start_tribler_core ==
    /\ use_existing_core' = FALSE
    /\ LET env == IF core_env = None THEN "systemEnvironment+CORE_API_PORT+CORE_API_KEY+TSTATEDIR"
                  ELSE core_env
           args == IF core_args = None THEN "sys.argv+--core" ELSE core_args
       IN  procs' = Append(procs, [state |-> "starting", env |-> env, args |-> args])
    /\ core_process' = Len(procs) + 1
    /\ calls' = Append(calls, "QProcess.start")

\* on_event_manager_initial_error that starts the upgrader without
\* connecting upgrader_finished to start_tribler_core.
on_event_manager_initial_error_not_connecting ==
    /\ IF upgrade_manager # None
       THEN /\ UNCHANGED upgrader_finished_slot
            /\ upgrader' = "running"
            /\ calls' = Append(calls, "upgrade_manager.start")
            /\ UNCHANGED <<use_existing_core, procs, core_process>>
       ELSE /\ start_tribler_core
            /\ UNCHANGED <<upgrader_finished_slot, upgrader>>
    /\ UNCHANGED <<upgrade_manager, core_args, core_env, core_started, core_running,
                   core_connected, shutting_down, core_finished,
                   should_quit_app_on_core_finished, last_core_stdout_output,
                   last_core_stderr_output>>
    /\ UNCHANGED <<reply_error_slot, events_manager_shutting_down, connect_timer,
                   quitting_app, error_messages>>
    /\ raised' = None

\* on_event_manager_initial_error that does nothing once stop() was called.
on_event_manager_initial_error_unless_stopping ==
    /\ IF shutting_down
       THEN UNCHANGED <<upgrader_finished_slot, upgrader, calls, use_existing_core,
                        procs, core_process>>
       ELSE IF upgrade_manager # None
       THEN /\ upgrader_finished_slot' = TRUE
            /\ upgrader' = "running"
            /\ calls' = Append(calls, "upgrade_manager.start")
            /\ UNCHANGED <<use_existing_core, procs, core_process>>
       ELSE /\ start_tribler_core
            /\ UNCHANGED <<upgrader_finished_slot, upgrader>>
    /\ UNCHANGED <<upgrade_manager, core_args, core_env, core_started, core_running,
                   core_connected, shutting_down, core_finished,
                   should_quit_app_on_core_finished, last_core_stdout_output,
                   last_core_stderr_output>>
    /\ UNCHANGED <<reply_error_slot, events_manager_shutting_down, connect_timer,
                   quitting_app, error_messages>>
    /\ raised' = None

\* on_event_manager_initial_error that launches without waiting for the
\* upgrader.
on_event_manager_initial_error_no_wait ==
    /\ start_tribler_core
    /\ UNCHANGED <<upgrader_finished_slot, upgrader>>
    /\ UNCHANGED <<upgrade_manager, core_args, core_env, core_started, core_running,
                   core_connected, shutting_down, core_finished,
                   should_quit_app_on_core_finished, last_core_stdout_output,
                   last_core_stderr_output>>
    /\ UNCHANGED <<reply_error_slot, events_manager_shutting_down, connect_timer,
                   quitting_app, error_messages>>
    /\ raised' = None

\* on_event_manager_initial_error(self, _)
on_event_manager_initial_error ==
    /\ IF upgrade_manager # None
       THEN /\ upgrader_finished_slot' = TRUE
            /\ upgrader' = "running"
            /\ calls' = Append(calls, "upgrade_manager.start")
            /\ UNCHANGED <<use_existing_core, procs, core_process>>
       ELSE /\ start_tribler_core
            /\ UNCHANGED <<upgrader_finished_slot, upgrader>>
    /\ UNCHANGED <<upgrade_manager, core_args, core_env, core_started, core_running,
                   core_connected, shutting_down, core_finished,
                   should_quit_app_on_core_finished, last_core_stdout_output,
                   last_core_stderr_output>>
    /\ UNCHANGED <<reply_error_slot, events_manager_shutting_down, connect_timer,
                   quitting_app, error_messages>>
    /\ raised' = None

\* on_core_started that sets core_running only.
on_core_started_running_only ==
    /\ UNCHANGED core_started
    /\ core_running' = TRUE
    /\ UNCHANGED <<core_process, upgrade_manager, core_args, core_env, core_connected,
                   shutting_down, core_finished, should_quit_app_on_core_finished,
                   use_existing_core, last_core_stdout_output,
                   last_core_stderr_output>>
    /\ UNCHANGED <<slots, upgrader, events_manager_shutting_down, connect_timer,
                   quitting_app, calls, error_messages>>
    /\ raised' = None

\* on_core_started(self)
on_core_started ==
    /\ core_started' = TRUE
    /\ core_running' = TRUE
    /\ UNCHANGED <<core_process, upgrade_manager, core_args, core_env, core_connected,
                   shutting_down, core_finished, should_quit_app_on_core_finished,
                   use_existing_core, last_core_stdout_output,
                   last_core_stderr_output>>
    /\ UNCHANGED <<slots, upgrader, events_manager_shutting_down, connect_timer,
                   quitting_app, calls, error_messages>>
    /\ raised' = None

\* on_core_stdout_read_ready without the quitting_app guard.
on_core_stdout_read_ready_unguarded(raw_output) ==
    /\ IF decode_utf8(raw_output) = DecodeError
       THEN UNCHANGED last_core_stdout_output /\ raised' = "UnicodeDecodeError"
       ELSE /\ last_core_stdout_output' = strip(decode_utf8(raw_output))
            /\ raised' = None
    /\ UNCHANGED <<core_process, upgrade_manager, core_args, core_env, core_started,
                   core_running, core_connected, shutting_down, core_finished,
                   should_quit_app_on_core_finished, use_existing_core,
                   last_core_stderr_output>>
    /\ UNCHANGED <<slots, collaborators, calls, error_messages>>

\* on_core_stdout_read_ready(self); raw_output is what readAllStandardOutput
\* returns.  print() may fail with OSError, which the slot swallows.
on_core_stdout_read_ready(raw_output) ==
    /\ IF quitting_app
       THEN UNCHANGED last_core_stdout_output /\ raised' = None
       ELSE IF decode_utf8(raw_output) = DecodeError
       THEN UNCHANGED last_core_stdout_output /\ raised' = "UnicodeDecodeError"
       ELSE /\ last_core_stdout_output' = strip(decode_utf8(raw_output))
            /\ raised' = None
    /\ UNCHANGED <<core_process, upgrade_manager, core_args, core_env, core_started,
                   core_running, core_connected, shutting_down, core_finished,
                   should_quit_app_on_core_finished, use_existing_core,
                   last_core_stderr_output>>
    /\ UNCHANGED <<slots, collaborators, calls, error_messages>>

\* on_core_stderr_read_ready(self)
on_core_stderr_read_ready(raw_output) ==
    /\ IF quitting_app
       THEN UNCHANGED last_core_stderr_output /\ raised' = None
       ELSE IF decode_utf8(raw_output) = DecodeError
       THEN UNCHANGED last_core_stderr_output /\ raised' = "UnicodeDecodeError"
       ELSE /\ last_core_stderr_output' = strip(decode_utf8(raw_output))
            /\ raised' = None
    /\ UNCHANGED <<core_process, upgrade_manager, core_args, core_env, core_started,
                   core_running, core_connected, shutting_down, core_finished,
                   should_quit_app_on_core_finished, use_existing_core,
                   last_core_stdout_output>>
    /\ UNCHANGED <<slots, collaborators, calls, error_messages>>

\* stop without the early return on shutting_down.
stop_unguarded(quit_app_on_core_finished) ==
    /\ should_quit_app_on_core_finished' =
           (IF quit_app_on_core_finished THEN TRUE ELSE should_quit_app_on_core_finished)
    /\ shutting_down' = TRUE
    /\ IF core_process # 0 \/ core_connected
       THEN /\ events_manager_shutting_down' = TRUE
            /\ calls' = calls \o <<"logger.info:Stopping Core manager",
                                   "logger.info:Sending shutdown request",
                                   "events_manager.shutting_down=True",
                                   "TriblerNetworkRequest:shutdown">>
       ELSE /\ UNCHANGED events_manager_shutting_down
            /\ calls' = Append(calls, "logger.info:Stopping Core manager")
    /\ UNCHANGED <<core_process, upgrade_manager, core_args, core_env, core_started,
                   core_running, core_connected, core_finished, use_existing_core,
                   last_core_stdout_output, last_core_stderr_output>>
    /\ UNCHANGED <<slots, procs, upgrader, connect_timer, quitting_app, error_messages>>
    /\ raised' = None

\* stop that returns on shutting_down before it looks at its argument.
stop_guard_first(quit_app_on_core_finished) ==
    /\ IF shutting_down
       THEN UNCHANGED <<should_quit_app_on_core_finished, shutting_down,
                        events_manager_shutting_down, calls>>
       ELSE /\ should_quit_app_on_core_finished' =
                   (IF quit_app_on_core_finished THEN TRUE
                    ELSE should_quit_app_on_core_finished)
            /\ shutting_down' = TRUE
            /\ IF core_process # 0 \/ core_connected
               THEN /\ events_manager_shutting_down' = TRUE
                    /\ calls' = calls \o <<"logger.info:Stopping Core manager",
                                           "logger.info:Sending shutdown request",
                                           "events_manager.shutting_down=True",
                                           "TriblerNetworkRequest:shutdown">>
               ELSE /\ UNCHANGED events_manager_shutting_down
                    /\ calls' = Append(calls, "logger.info:Stopping Core manager")
    /\ UNCHANGED <<core_process, upgrade_manager, core_args, core_env, core_started,
                   core_running, core_connected, core_finished, use_existing_core,
                   last_core_stdout_output, last_core_stderr_output>>
    /\ UNCHANGED <<slots, procs, upgrader, connect_timer, quitting_app, error_messages>>
    /\ raised' = None

\* stop that sends the shutdown request only when it holds a process.
stop_process_only(quit_app_on_core_finished) ==
    /\ should_quit_app_on_core_finished' =
           (IF quit_app_on_core_finished THEN TRUE ELSE should_quit_app_on_core_finished)
    /\ IF shutting_down
       THEN UNCHANGED <<shutting_down, events_manager_shutting_down, calls>>
       ELSE /\ shutting_down' = TRUE
            /\ IF core_process # 0
               THEN /\ events_manager_shutting_down' = TRUE
                    /\ calls' = calls \o <<"logger.info:Stopping Core manager",
                                           "logger.info:Sending shutdown request",
                                           "events_manager.shutting_down=True",
                                           "TriblerNetworkRequest:shutdown">>
               ELSE /\ UNCHANGED events_manager_shutting_down
                    /\ calls' = Append(calls, "logger.info:Stopping Core manager")
    /\ UNCHANGED <<core_process, upgrade_manager, core_args, core_env, core_started,
                   core_running, core_connected, core_finished, use_existing_core,
                   last_core_stdout_output, last_core_stderr_output>>
    /\ UNCHANGED <<slots, procs, upgrader, connect_timer, quitting_app, error_messages>>
    /\ raised' = None

\* stop(self, quit_app_on_core_finished)
stop(quit_app_on_core_finished) ==
    /\ should_quit_app_on_core_finished' =
           (IF quit_app_on_core_finished THEN TRUE ELSE should_quit_app_on_core_finished)
    /\ IF shutting_down
       THEN UNCHANGED <<shutting_down, events_manager_shutting_down, calls>>
       ELSE /\ shutting_down' = TRUE
            /\ IF core_process # 0 \/ core_connected
               THEN /\ events_manager_shutting_down' = TRUE
                    /\ calls' = calls \o <<"logger.info:Stopping Core manager",
                                           "logger.info:Sending shutdown request",
                                           "events_manager.shutting_down=True",
                                           "TriblerNetworkRequest:shutdown">>
               ELSE /\ UNCHANGED events_manager_shutting_down
                    /\ calls' = Append(calls, "logger.info:Stopping Core manager")
    /\ UNCHANGED <<core_process, upgrade_manager, core_args, core_env, core_started,
                   core_running, core_connected, core_finished, use_existing_core,
                   last_core_stdout_output, last_core_stderr_output>>
    /\ UNCHANGED <<slots, procs, upgrader, connect_timer, quitting_app, error_messages>>
    /\ raised' = None

\* "The Tribler core has unexpectedly finished with exit code "
HeaderText ==
    <<84, 104, 101, 32, 84, 114, 105, 98, 108, 101, 114, 32, 99, 111, 114,
    101, 32, 104, 97, 115, 32, 117, 110, 101, 120, 112, 101, 99, 116, 101,
    100, 108, 121, 32, 102, 105, 110, 105, 115, 104, 101, 100, 32, 119, 105,
    116, 104, 32, 101, 120, 105, 116, 32, 99, 111, 100, 101, 32>>

\* " and status: "
AndStatusText ==
    <<32, 97, 110, 100, 32, 115, 116, 97, 116, 117, 115, 58, 32>>

\* "\n\nError message: " (the "." that ends the header goes before it)
ErrorMessageText ==
    <<10, 10, 69, 114, 114, 111, 114, 32, 109, 101, 115, 115, 97, 103, 101,
    58, 32>>

\* "\n\nLast core output:\n"
LastCoreOutputText ==
    <<10, 10, 76, 97, 115, 116, 32, 99, 111, 114, 101, 32, 111, 117, 116, 112,
    117, 116, 58, 10>>

\* 'unknown error number'
UnknownErrorNumberText ==
    <<117, 110, 107, 110, 111, 119, 110, 32, 101, 114, 114, 111, 114, 32, 110,
    117, 109, 98, 101, 114>>

\* strerror(0) of the C library: "Success"
SuccessText ==
    <<83, 117, 99, 99, 101, 115, 115>>

\* strerror(1), EPERM: "Operation not permitted"
OperationNotPermittedText ==
    <<79, 112, 101, 114, 97, 116, 105, 111, 110, 32, 110, 111, 116, 32, 112,
    101, 114, 109, 105, 116, 116, 101, 100>>

\* What a C library that describes every number answers: "Unknown error N"
UnknownErrorText ==
    <<85, 110, 107, 110, 111, 119, 110, 32, 101, 114, 114, 111, 114, 32>>

\* str(n) of an int, as the f-strings format exit_code and exit_status.
RECURSIVE Digits(_)
Digits(n) == IF n < 10 THEN <<48 + n>> ELSE Digits(n \div 10) \o <<48 + (n % 10)>>

IntToStr(n) == IF n < 0 THEN <<45>> \o Digits(-n) ELSE Digits(n)

ValueError == <<-2>>

\* os.strerror(exit_code): the outcomes the platform can produce.  0 and 1
\* have a description everywhere; for a number the C library does not know
\* it answers "Unknown error N", or NULL, and then Python raises ValueError.
strerror(exit_code) ==
    IF exit_code = 0 THEN {SuccessText}
    ELSE IF exit_code = 1 THEN {OperationNotPermittedText}
    ELSE {UnknownErrorText \o IntToStr(exit_code), ValueError}

\* re.sub(r'^', '> ', s, flags=re.MULTILINE): "> " (62, 32) goes in at the
\* start of the text and after every newline (10).
RECURSIVE sub_after_newlines(_)
sub_after_newlines(s) ==
    IF s = <<>> THEN <<>>
    ELSE IF s[1] = 10 THEN <<10, 62, 32>> \o sub_after_newlines(Tail(s))
    ELSE <<s[1]>> \o sub_after_newlines(Tail(s))

quote_lines(s) == <<62, 32>> \o sub_after_newlines(s)

\* The same substitution without re.MULTILINE: ^ matches at the start only.
quote_first_line_only(s) == <<62, 32>> \o s

\* format_error_message with the output quoted on its first line only.
format_error_message_not_multiline(exit_code, exit_status, last_core_output) ==
    {HeaderText \o IntToStr(exit_code) \o AndStatusText \o IntToStr(exit_status) \o <<46>>
        \o ErrorMessageText
        \o (IF string_error = ValueError THEN UnknownErrorNumberText ELSE string_error)
        \o LastCoreOutputText \o quote_first_line_only(last_core_output)
     : string_error \in strerror(exit_code)}

\* format_error_message(exit_code, exit_status, last_core_output): the
\* messages it can return, one for each outcome of os.strerror.
format_error_message(exit_code, exit_status, last_core_output) ==
    {HeaderText \o IntToStr(exit_code) \o AndStatusText \o IntToStr(exit_status) \o <<46>>
        \o ErrorMessageText
        \o (IF string_error = ValueError THEN UnknownErrorNumberText ELSE string_error)
        \o LastCoreOutputText \o quote_lines(last_core_output)
     : string_error \in strerror(exit_code)}

\* on_core_finished that quits the application on every expected exit,
\* without looking at should_quit_app_on_core_finished.
on_core_finished_always_quits(exit_code, exit_status) ==
    /\ core_running' = FALSE
    /\ core_finished' = TRUE
    /\ IF shutting_down
       THEN /\ calls' = Append(calls, "app_manager.quit_application")
            /\ quitting_app' = TRUE
            /\ UNCHANGED <<connect_timer, error_messages>>
            /\ raised' = None
       ELSE LET output == IF last_core_stderr_output # <<>>
                          THEN last_core_stderr_output
                          ELSE last_core_stdout_output
            IN  /\ \E error_message \in format_error_message(exit_code, exit_status, output) :
                       error_messages' = error_messages \cup
                           {[exit_code |-> exit_code, exit_status |-> exit_status,
                             last_core_output |-> output, message |-> error_message]}
                /\ IF ~quitting_app /\ connect_timer = "active"
                   THEN /\ connect_timer' = "inactive"
                        /\ calls' = calls \o <<"logger.warning", "connect_timer.stop">>
                   ELSE /\ UNCHANGED connect_timer
                        /\ calls' = Append(calls, "logger.warning")
                /\ UNCHANGED quitting_app
                /\ raised' = "CoreCrashedError"
    /\ UNCHANGED <<core_process, upgrade_manager, core_args, core_env, core_started,
                   core_connected, shutting_down, should_quit_app_on_core_finished,
                   use_existing_core, last_core_stdout_output,
                   last_core_stderr_output>>
    /\ UNCHANGED <<slots, upgrader, events_manager_shutting_down>>

\* on_core_finished that clears shutting_down once the core is gone.
on_core_finished_clearing_flag(exit_code, exit_status) ==
    /\ core_running' = FALSE
    /\ core_finished' = TRUE
    /\ shutting_down' = FALSE
    /\ IF shutting_down
       THEN /\ IF should_quit_app_on_core_finished
               THEN /\ calls' = Append(calls, "app_manager.quit_application")
                    /\ quitting_app' = TRUE
               ELSE UNCHANGED <<calls, quitting_app>>
            /\ UNCHANGED <<connect_timer, error_messages>>
            /\ raised' = None
       ELSE LET output == IF last_core_stderr_output # <<>>
                          THEN last_core_stderr_output
                          ELSE last_core_stdout_output
            IN  /\ \E error_message \in format_error_message(exit_code, exit_status, output) :
                       error_messages' = error_messages \cup
                           {[exit_code |-> exit_code, exit_status |-> exit_status,
                             last_core_output |-> output, message |-> error_message]}
                /\ IF ~quitting_app /\ connect_timer = "active"
                   THEN /\ connect_timer' = "inactive"
                        /\ calls' = calls \o <<"logger.warning", "connect_timer.stop">>
                   ELSE /\ UNCHANGED connect_timer
                        /\ calls' = Append(calls, "logger.warning")
                /\ UNCHANGED quitting_app
                /\ raised' = "CoreCrashedError"
    /\ UNCHANGED <<core_process, upgrade_manager, core_args, core_env, core_started,
                   core_connected, should_quit_app_on_core_finished,
                   use_existing_core, last_core_stdout_output,
                   last_core_stderr_output>>
    /\ UNCHANGED <<slots, upgrader, events_manager_shutting_down>>

\* on_core_finished that leaves core_running as it was.
on_core_finished_keeping_running(exit_code, exit_status) ==
    /\ UNCHANGED core_running
    /\ core_finished' = TRUE
    /\ IF shutting_down
       THEN /\ IF should_quit_app_on_core_finished
               THEN /\ calls' = Append(calls, "app_manager.quit_application")
                    /\ quitting_app' = TRUE
               ELSE UNCHANGED <<calls, quitting_app>>
            /\ UNCHANGED <<connect_timer, error_messages>>
            /\ raised' = None
       ELSE LET output == IF last_core_stderr_output # <<>>
                          THEN last_core_stderr_output
                          ELSE last_core_stdout_output
            IN  /\ \E error_message \in format_error_message(exit_code, exit_status, output) :
                       error_messages' = error_messages \cup
                           {[exit_code |-> exit_code, exit_status |-> exit_status,
                             last_core_output |-> output, message |-> error_message]}
                /\ IF ~quitting_app /\ connect_timer = "active"
                   THEN /\ connect_timer' = "inactive"
                        /\ calls' = calls \o <<"logger.warning", "connect_timer.stop">>
                   ELSE /\ UNCHANGED connect_timer
                        /\ calls' = Append(calls, "logger.warning")
                /\ UNCHANGED quitting_app
                /\ raised' = "CoreCrashedError"
    /\ UNCHANGED <<core_process, upgrade_manager, core_args, core_env, core_started,
                   core_connected, shutting_down, should_quit_app_on_core_finished,
                   use_existing_core, last_core_stdout_output,
                   last_core_stderr_output>>
    /\ UNCHANGED <<slots, upgrader, events_manager_shutting_down>>

\* on_core_finished that raises CoreCrashedError only when the application
\* is not quitting (the raise moved into the if).
on_core_finished_silent_when_quitting(exit_code, exit_status) ==
    /\ core_running' = FALSE
    /\ core_finished' = TRUE
    /\ IF shutting_down
       THEN /\ IF should_quit_app_on_core_finished
               THEN /\ calls' = Append(calls, "app_manager.quit_application")
                    /\ quitting_app' = TRUE
               ELSE UNCHANGED <<calls, quitting_app>>
            /\ UNCHANGED <<connect_timer, error_messages>>
            /\ raised' = None
       ELSE LET output == IF last_core_stderr_output # <<>>
                          THEN last_core_stderr_output
                          ELSE last_core_stdout_output
            IN  /\ \E error_message \in format_error_message(exit_code, exit_status, output) :
                       error_messages' = error_messages \cup
                           {[exit_code |-> exit_code, exit_status |-> exit_status,
                             last_core_output |-> output, message |-> error_message]}
                /\ IF ~quitting_app /\ connect_timer = "active"
                   THEN /\ connect_timer' = "inactive"
                        /\ calls' = calls \o <<"logger.warning", "connect_timer.stop">>
                   ELSE /\ UNCHANGED connect_timer
                        /\ calls' = Append(calls, "logger.warning")
                /\ UNCHANGED quitting_app
                /\ raised' = (IF quitting_app THEN None ELSE "CoreCrashedError")
    /\ UNCHANGED <<core_process, upgrade_manager, core_args, core_env, core_started,
                   core_connected, shutting_down, should_quit_app_on_core_finished,
                   use_existing_core, last_core_stdout_output,
                   last_core_stderr_output>>
    /\ UNCHANGED <<slots, upgrader, events_manager_shutting_down>>

\* on_core_finished that takes stdout first: last_core_stdout_output or
\* last_core_stderr_output.
on_core_finished_preferring_stdout(exit_code, exit_status) ==
    /\ core_running' = FALSE
    /\ core_finished' = TRUE
    /\ IF shutting_down
       THEN /\ IF should_quit_app_on_core_finished
               THEN /\ calls' = Append(calls, "app_manager.quit_application")
                    /\ quitting_app' = TRUE
               ELSE UNCHANGED <<calls, quitting_app>>
            /\ UNCHANGED <<connect_timer, error_messages>>
            /\ raised' = None
       ELSE LET output == IF last_core_stdout_output # <<>>
                          THEN last_core_stdout_output
                          ELSE last_core_stderr_output
            IN  /\ \E error_message \in format_error_message(exit_code, exit_status, output) :
                       error_messages' = error_messages \cup
                           {[exit_code |-> exit_code, exit_status |-> exit_status,
                             last_core_output |-> output, message |-> error_message]}
                /\ IF ~quitting_app /\ connect_timer = "active"
                   THEN /\ connect_timer' = "inactive"
                        /\ calls' = calls \o <<"logger.warning", "connect_timer.stop">>
                   ELSE /\ UNCHANGED connect_timer
                        /\ calls' = Append(calls, "logger.warning")
                /\ UNCHANGED quitting_app
                /\ raised' = "CoreCrashedError"
    /\ UNCHANGED <<core_process, upgrade_manager, core_args, core_env, core_started,
                   core_connected, shutting_down, should_quit_app_on_core_finished,
                   use_existing_core, last_core_stdout_output,
                   last_core_stderr_output>>
    /\ UNCHANGED <<slots, upgrader, events_manager_shutting_down>>

\* on_core_finished(self, exit_code, exit_status)
on_core_finished(exit_code, exit_status) ==
    /\ core_running' = FALSE
    /\ core_finished' = TRUE
    /\ IF shutting_down
       THEN /\ IF should_quit_app_on_core_finished
               THEN /\ calls' = Append(calls, "app_manager.quit_application")
                    /\ quitting_app' = TRUE
               ELSE UNCHANGED <<calls, quitting_app>>
            /\ UNCHANGED <<connect_timer, error_messages>>
            /\ raised' = None
       ELSE LET output == IF last_core_stderr_output # <<>>
                          THEN last_core_stderr_output
                          ELSE last_core_stdout_output
            IN  /\ \E error_message \in format_error_message(exit_code, exit_status, output) :
                       error_messages' = error_messages \cup
                           {[exit_code |-> exit_code, exit_status |-> exit_status,
                             last_core_output |-> output, message |-> error_message]}
                /\ IF ~quitting_app /\ connect_timer = "active"
                   THEN /\ connect_timer' = "inactive"
                        /\ calls' = calls \o <<"logger.warning", "connect_timer.stop">>
                   ELSE /\ UNCHANGED connect_timer
                        /\ calls' = Append(calls, "logger.warning")
                /\ UNCHANGED quitting_app
                /\ raised' = "CoreCrashedError"
    /\ UNCHANGED <<core_process, upgrade_manager, core_args, core_env, core_started,
                   core_connected, shutting_down, should_quit_app_on_core_finished,
                   use_existing_core, last_core_stdout_output,
                   last_core_stderr_output>>
    /\ UNCHANGED <<slots, upgrader, events_manager_shutting_down>>

\* -------------------------------------------- callers and signal delivery
\* The window calls start() once, after construction.
CallStart ==
    /\ start_called = "no"
    /\ \E args \in CoreArgsValues, env \in CoreEnvValues,
          um \in UpgradeManagerValues, run_core \in BOOLEAN :
          /\ start(args, env, um, run_core)
          /\ start_called' = (IF run_core THEN "run_core" ELSE "passive")
    /\ last_call' = "start"
    /\ UNCHANGED <<reply_error_emitted, connected_emitted, stop_calls>>

\* Any caller may call stop(), with either argument, at any time.
CallStop ==
    /\ stop_calls < MaxStopCalls
    /\ \E quit_app_on_core_finished \in BOOLEAN :
          /\ stop(quit_app_on_core_finished)
          /\ last_call' = (IF quit_app_on_core_finished THEN "stop(True)" ELSE "stop(False)")
    /\ stop_calls' = stop_calls + 1
    /\ UNCHANGED <<start_called, reply_error_emitted, connected_emitted>>

\* events_manager.core_connected is emitted; the slot was connected in __init__.
CoreConnectedSignal ==
    /\ start_called # "no"
    /\ on_core_connected
    /\ connected_emitted' = TRUE
    /\ last_call' = "on_core_connected"
    /\ UNCHANGED <<start_called, reply_error_emitted, stop_calls>>

\* events_manager.reply.error is emitted: the initial connection failed.  It
\* is emitted at most once and never after a successful connection.
ReplyErrorSignal ==
    /\ start_called # "no"
    /\ ~reply_error_emitted
    /\ ~connected_emitted
    /\ reply_error_emitted' = TRUE
    /\ IF reply_error_slot
       THEN /\ on_event_manager_initial_error
            /\ last_call' = "on_event_manager_initial_error"
       ELSE /\ UNCHANGED <<fields, slots, collaborators, calls, error_messages>>
            /\ last_call' = None
            /\ raised' = None
    /\ UNCHANGED <<start_called, connected_emitted, stop_calls>>

\* upgrade_manager.upgrader_finished is emitted, once, after start().
UpgraderFinishedSignal ==
    /\ upgrader = "running"
    /\ upgrader' = "finished"
    /\ IF upgrader_finished_slot
       THEN /\ start_tribler_core
            /\ last_call' = "start_tribler_core"
       ELSE /\ UNCHANGED <<use_existing_core, procs, core_process, calls>>
            /\ last_call' = None
    /\ raised' = None
    /\ UNCHANGED <<upgrade_manager, core_args, core_env, core_started, core_running,
                   core_connected, shutting_down, core_finished,
                   should_quit_app_on_core_finished, last_core_stdout_output,
                   last_core_stderr_output>>
    /\ UNCHANGED <<slots, events_manager_shutting_down, connect_timer, quitting_app,
                   history, error_messages>>

\* QProcess.started of process i
ProcessStartedSignal ==
    /\ \E i \in 1..Len(procs) :
          /\ procs[i].state = "starting"
          /\ procs' = [procs EXCEPT ![i].state = "running"]
    /\ on_core_started
    /\ last_call' = "on_core_started"
    /\ UNCHANGED history

\* QProcess.readyReadStandardOutput of a running process i; the slot reads
\* what self.core_process has buffered.
ReadyReadStandardOutputSignal ==
    /\ \E i \in 1..Len(procs), raw_output \in Chunks :
          /\ procs[i].state = "running"
          /\ on_core_stdout_read_ready(raw_output)
    /\ last_call' = "on_core_stdout_read_ready"
    /\ UNCHANGED history

\* QProcess.readyReadStandardError of a running process i
ReadyReadStandardErrorSignal ==
    /\ \E i \in 1..Len(procs), raw_output \in Chunks :
          /\ procs[i].state = "running"
          /\ on_core_stderr_read_ready(raw_output)
    /\ last_call' = "on_core_stderr_read_ready"
    /\ UNCHANGED history

\* QProcess.finished of a running process i
ProcessFinishedSignal ==
    /\ \E i \in 1..Len(procs), exit_code \in ExitCodes, exit_status \in ExitStatuses :
          /\ procs[i].state = "running"
          /\ procs' = [procs EXCEPT ![i].state = "finished"]
          /\ on_core_finished(exit_code, exit_status)
    /\ last_call' = "on_core_finished"
    /\ UNCHANGED history

\* The host application starts quitting on its own (AppManager.quitting_app).
AppQuits ==
    /\ ~quitting_app
    /\ quitting_app' = TRUE
    /\ last_call' = None
    /\ raised' = None
    /\ UNCHANGED <<fields, slots, procs, upgrader, events_manager_shutting_down,
                   connect_timer, history, calls, error_messages>>

\* The EventRequestManager arms or lets run out its reconnection timer.
ConnectTimerChanges ==
    /\ start_called # "no"
    /\ \E t \in {"inactive", "active"} : t # connect_timer /\ connect_timer' = t
    /\ last_call' = None
    /\ raised' = None
    /\ UNCHANGED <<fields, slots, procs, upgrader, events_manager_shutting_down,
                   quitting_app, history, calls, error_messages>>

\* A caller invokes start_tribler_core() again, after a launch.
CallStartTriblerCore ==
    /\ procs # <<>>
    /\ Len(procs) < MaxSpawns
    /\ start_tribler_core
    /\ last_call' = "start_tribler_core"
    /\ raised' = None
    /\ UNCHANGED <<upgrade_manager, core_args, core_env, core_started, core_running,
                   core_connected, shutting_down, core_finished,
                   should_quit_app_on_core_finished, last_core_stdout_output,
                   last_core_stderr_output>>
    /\ UNCHANGED <<slots, upgrader, events_manager_shutting_down, connect_timer,
                   quitting_app, history, error_messages>>

\* ------------------------------------------------------- specifications
\* The session as the signals drive it.
Next ==
    \/ CallStart
    \/ CallStop
    \/ CoreConnectedSignal
    \/ ReplyErrorSignal
    \/ UpgraderFinishedSignal
    \/ ProcessStartedSignal
    \/ ReadyReadStandardOutputSignal
    \/ ReadyReadStandardErrorSignal
    \/ ProcessFinishedSignal
    \/ AppQuits
    \/ ConnectTimerChanges

Spec == Init /\ [][Next]_vars

\* The same session with an upgrader that does signal completion: once
\* started, upgrader_finished is eventually emitted.
SpecLive == Spec /\ WF_vars(UpgraderFinishedSignal)

\* The launch path alone (start, the initial connection error, the upgrader,
\* the processes' started/finished signals, stop), with a caller that also
\* invokes the launch entry point itself.  Every behaviour of it is a
\* behaviour of the program whose callers do so.
NextRelaunch ==
    \/ CallStart
    \/ CallStop
    \/ ReplyErrorSignal
    \/ UpgraderFinishedSignal
    \/ ProcessStartedSignal
    \/ ProcessFinishedSignal
    \/ CallStartTriblerCore

SpecRelaunch == Init /\ [][NextRelaunch]_vars

\* ------------------------------------------------------------ properties
Spawns == Count("QProcess.start", calls)
QuitCalls == Count("app_manager.quit_application", calls)
ShutdownRequests == Count("TriblerNetworkRequest:shutdown", calls)
ShuttingDownSets == Count("logger.info:Stopping Core manager", calls)
UpgraderStarts == Count("upgrade_manager.start", calls)

\* C1: at most one worker process per CoreManager: once a QProcess has been
\* created, no step (a further start_tribler_core() included) creates
\* another one or replaces core_process.
C1_FurtherLaunchIsNoOp ==
    [][procs # <<>> => (Len(procs') = Len(procs) /\ core_process' = core_process)]_vars

\* C2: once core_connected has been emitted while no process was spawned,
\* no later step spawns one and use_existing_core stays True.
C2_ConnectedFirstNeverSpawns ==
    [][(connected_emitted /\ procs = <<>>) => (procs' = <<>> /\ use_existing_core')]_vars

\* C3: with an upgrade manager, no process exists before upgrader_finished
\* was emitted, and the initial-error handler only starts the upgrader.
C3_NoSpawnBeforeUpgraderFinished ==
    /\ []((upgrade_manager # None /\ upgrader # "finished")
            => (procs = <<>> /\ core_process = 0 /\ Spawns = 0))
    /\ [][(upgrade_manager # None /\ last_call' = "on_event_manager_initial_error")
            => (calls' = Append(calls, "upgrade_manager.start")
                /\ upgrader' = "running" /\ procs' = procs)]_vars

\* The upgrader is still running although the core connected and stop() ran.
C3_Witness ==
    /\ upgrade_manager # None
    /\ upgrader = "running"
    /\ core_connected
    /\ shutting_down
    /\ procs = <<>>

\* C4: on_core_finished quits the application exactly when shutting_down
\* and should_quit_app_on_core_finished hold, raises CoreCrashedError
\* exactly when shutting_down does not hold, and quit_application is called
\* at most once in a session.
C4_ExitClassification ==
    /\ [](QuitCalls <= 1)
    /\ [][(~core_finished /\ core_finished') =>
            /\ (shutting_down /\ should_quit_app_on_core_finished)
                  => (QuitCalls' = QuitCalls + 1 /\ raised' = None)
            /\ (shutting_down /\ ~should_quit_app_on_core_finished)
                  => (QuitCalls' = QuitCalls /\ raised' = None)
            /\ ~shutting_down
                  => (QuitCalls' = QuitCalls /\ raised' = "CoreCrashedError")]_vars

\* The core exited after stop(True): the application was asked to quit.
C4_Witness ==
    /\ last_call = "on_core_finished"
    /\ shutting_down
    /\ should_quit_app_on_core_finished
    /\ QuitCalls = 1
    /\ raised = None

\* C5: however often stop() is called, shutting_down is set once and the
\* shutdown request is sent at most once.
C5_StopIdempotent ==
    /\ ShuttingDownSets <= 1
    /\ ShutdownRequests <= 1
    /\ stop_calls >= 1 => (shutting_down /\ ShuttingDownSets = 1)
    /\ stop_calls = 0 => (~shutting_down /\ ShuttingDownSets = 0)

\* stop() ran twice and the shutdown request went out once.
C5_Witness ==
    /\ stop_calls >= 2
    /\ ShutdownRequests = 1
    /\ ShuttingDownSets = 1

\* C6: core_connected becomes True only in a step that starts with
\* core_finished False; on_core_connected after the exit changes nothing.
C6_NoConnectAfterFinish ==
    /\ [][(~core_connected /\ core_connected') => ~core_finished]_vars
    /\ [][(core_finished /\ last_call' = "on_core_connected")
            => core_connected' = core_connected]_vars

\* core_connected was delivered after the core had exited and was ignored.
C6_Witness ==
    /\ last_call = "on_core_connected"
    /\ core_finished
    /\ ~core_connected

\* C7: use_existing_core implies core_process is None, and
\* use_existing_core never goes back to True.
C7_ExistingCoreHasNoProcess ==
    /\ [](use_existing_core => core_process = 0)
    /\ [][~use_existing_core => ~use_existing_core']_vars

\* A process was launched and has exited: the flag is still False.
C7_Witness ==
    /\ ~use_existing_core
    /\ core_process # 0
    /\ core_finished

\* C8: shutting_down, once True, stays True.
C8_ShuttingDownMonotonic ==
    [][shutting_down => shutting_down']_vars

\* stop() came first, then the core exited: shutting_down still holds.
C8_Witness ==
    /\ shutting_down
    /\ last_call = "on_core_finished"

\* C9: the stdout/stderr slots never let an exception escape.
C9_ReadHandlersNeverRaise ==
    last_call \in {"on_core_stdout_read_ready", "on_core_stderr_read_ready"}
        => raised = None

\* What stop() calls and logs.
StopEffects == {"logger.info:Stopping Core manager", "logger.info:Sending shutdown request",
                "events_manager.shutting_down=True", "TriblerNetworkRequest:shutdown"}

\* C10: after start(run_core=False) the only collaborator call made, apart
\* from what stop() does, is events_manager.connect(); no error handler is
\* registered, and nothing that follows starts the upgrader or a process.
C10_PassiveStart ==
    start_called = "passive" =>
        /\ Count("events_manager.connect", calls) = 1
        /\ \A i \in 1..Len(calls) : calls[i] \in StopEffects \cup {"events_manager.connect"}
        /\ ~reply_error_slot
        /\ ~upgrader_finished_slot
        /\ upgrade_manager = None
        /\ upgrader = "idle"
        /\ UpgraderStarts = 0
        /\ Spawns = 0
        /\ procs = <<>>
        /\ core_process = 0
        /\ use_existing_core

\* The initial connection failed after a passive start.
C10_Witness ==
    /\ start_called = "passive"
    /\ reply_error_emitted

\* s has sub as a contiguous part.
Contains(s, sub) ==
    \E i \in 0..(Len(s) - Len(sub)) : SubSeq(s, i + 1, i + Len(sub)) = sub

EndsWith(s, sub) ==
    Len(s) >= Len(sub) /\ SubSeq(s, Len(s) - Len(sub) + 1, Len(s)) = sub

\* The lines of a text, split at newlines (10).
RECURSIVE Lines(_)
Lines(s) ==
    IF \A i \in 1..Len(s) : s[i] # 10 THEN <<s>>
    ELSE LET k == CHOOSE i \in 1..Len(s) : s[i] = 10 /\ \A j \in 1..(i - 1) : s[j] # 10
         IN  <<SubSeq(s, 1, k - 1)>> \o Lines(SubSeq(s, k + 1, Len(s)))

\* Every line with "> " in front, joined by newlines again.
RECURSIVE QuotedLines(_)
QuotedLines(ls) ==
    IF Len(ls) = 1 THEN <<62, 32>> \o ls[1]
    ELSE <<62, 32>> \o ls[1] \o <<10>> \o QuotedLines(Tail(ls))

\* "exit code "
ExitCodeText == <<101, 120, 105, 116, 32, 99, 111, 100, 101, 32>>
\* "boom", "exit code 1 and status: 0", "> boom"
BoomText == <<98, 111, 111, 109>>
ExitCode1Status0Text == <<101, 120, 105, 116, 32, 99, 111, 100, 101, 32, 49, 32, 97, 110, 100, 32, 115, 116, 97, 116, 117, 115, 58, 32, 48>>
QuotedBoomText == <<62, 32, 98, 111, 111, 109>>

\* C11: every message format_error_message returned holds "exit code
\* {exit_code} and status: {exit_status}", an "Error message:" line with the
\* platform's description of exit_code or 'unknown error number', and ends
\* with the last output, each line behind "> "; no exception of os.strerror
\* gets into it.  format_error_message(1, 0, "boom") holds "> boom".
C11_FormatErrorMessage ==
    /\ \A r \in error_messages :
          /\ Contains(r.message, ExitCodeText \o IntToStr(r.exit_code) \o AndStatusText
                                    \o IntToStr(r.exit_status))
          /\ \E e \in strerror(r.exit_code) :
                Contains(r.message,
                         ErrorMessageText
                             \o (IF e = ValueError THEN UnknownErrorNumberText ELSE e)
                             \o <<10>>)
          /\ EndsWith(r.message,
                      LastCoreOutputText \o QuotedLines(Lines(r.last_core_output)))
          /\ \A i \in 1..Len(r.message) : r.message[i] >= 0
    /\ \A m \in format_error_message(1, 0, BoomText) :
          /\ Contains(m, ExitCode1Status0Text)
          /\ Contains(m, ErrorMessageText \o OperationNotPermittedText)
          /\ Contains(m, QuotedBoomText)

\* A crash with an exit code the platform has no description of and two
\* lines of output: 'unknown error number' is in the message.
C11_Witness ==
    \E r \in error_messages :
        /\ r.exit_code = 1000
        /\ Len(Lines(r.last_core_output)) = 2
        /\ Contains(r.message, UnknownErrorNumberText)

\* C12: once the core has exited, core_finished stays True, core_running
\* stays False and no further process is created.
C12_ExitIsTerminal ==
    /\ [](core_finished => ~core_running)
    /\ [][core_finished => (core_finished' /\ ~core_running' /\ procs' = procs
                            /\ Spawns' = Spawns)]_vars

\* After the exit the session went on (stop() was called) and nothing restarted.
C12_Witness ==
    /\ core_finished
    /\ last_call \in {"stop(True)", "stop(False)"}
    /\ ~core_running
    /\ Len(procs) = 1

\* Where an entry stands in the log of calls (0: nowhere).
IndexOf(what, log) ==
    IF \E i \in 1..Len(log) : log[i] = what
    THEN CHOOSE i \in 1..Len(log) : log[i] = what /\ \A j \in 1..(i - 1) : log[j] # what
    ELSE 0

\* C13: the stop() that sets shutting_down sets events_manager.shutting_down
\* and then sends the shutdown request exactly when a process is held or
\* core_connected is True; otherwise it touches neither.
C13_FirstStopNotifies ==
    [][(~shutting_down /\ shutting_down') =>
         IF core_process # 0 \/ core_connected
         THEN /\ events_manager_shutting_down'
              /\ ShutdownRequests' = ShutdownRequests + 1
              /\ IndexOf("events_manager.shutting_down=True", calls') > Len(calls)
              /\ IndexOf("events_manager.shutting_down=True", calls')
                    < IndexOf("TriblerNetworkRequest:shutdown", calls')
         ELSE /\ UNCHANGED events_manager_shutting_down
              /\ calls' = Append(calls, "logger.info:Stopping Core manager")
              /\ UNCHANGED <<core_process, upgrade_manager, core_args, core_env,
                             core_started, core_running, core_connected, core_finished,
                             use_existing_core, last_core_stdout_output,
                             last_core_stderr_output, slots, procs, upgrader,
                             connect_timer, quitting_app>>]_vars

\* stop() found no process but a connected core and sent the request.
C13_Witness ==
    /\ last_call \in {"stop(True)", "stop(False)"}
    /\ core_process = 0
    /\ core_connected
    /\ events_manager_shutting_down
    /\ ShutdownRequests = 1

\* C14: after start(run_core=True), an initial connection error leads to a
\* spawned process: in the error handler itself without an upgrade manager,
\* and once the upgrader has signalled completion with one.
C14_InitialErrorLeadsToSpawn ==
    /\ [][(start_called = "run_core" /\ ~reply_error_emitted /\ reply_error_emitted'
              /\ upgrade_manager = None)
            => (Len(procs') = Len(procs) + 1 /\ core_process' = Len(procs'))]_vars
    /\ (start_called = "run_core" /\ reply_error_emitted) ~> (procs # <<>>)

\* The upgrader finished and the process it was waiting for exists.
C14_Witness ==
    /\ start_called = "run_core"
    /\ reply_error_emitted
    /\ upgrade_manager # None
    /\ upgrader = "finished"
    /\ core_process = 1
    /\ Spawns = 1

\* C15: every stop(True) sets should_quit_app_on_core_finished, also when
\* shutting_down is already True; nothing clears it; an exit that finds it
\* set while shutting down quits the application.
C15_QuitLatch ==
    /\ [][(last_call' = "stop(True)" /\ stop_calls' = stop_calls + 1)
            => should_quit_app_on_core_finished']_vars
    /\ [][should_quit_app_on_core_finished => should_quit_app_on_core_finished']_vars
    /\ [][(~core_finished /\ core_finished' /\ shutting_down
              /\ should_quit_app_on_core_finished)
            => QuitCalls' = QuitCalls + 1]_vars

\* stop(True) came as the second call, when shutting_down was already set
\* and the request already sent, and the latch is set.
C15_Witness ==
    /\ last_call = "stop(True)"
    /\ stop_calls = 2
    /\ ShuttingDownSets = 1
    /\ shutting_down
    /\ should_quit_app_on_core_finished

\* C16: an unexpected exit raises CoreCrashedError whether or not the
\* application is quitting; connect_timer is stopped exactly when the
\* application is not quitting and the timer exists and is active.
C16_CrashAlwaysRaises ==
    [][(~core_finished /\ core_finished' /\ ~shutting_down) =>
         /\ raised' = "CoreCrashedError"
         /\ Count("logger.warning", calls') = Count("logger.warning", calls) + 1
         /\ IF ~quitting_app /\ connect_timer = "active"
            THEN /\ connect_timer' = "inactive"
                 /\ Count("connect_timer.stop", calls')
                       = Count("connect_timer.stop", calls) + 1
            ELSE /\ connect_timer' = connect_timer
                 /\ Count("connect_timer.stop", calls')
                       = Count("connect_timer.stop", calls)]_vars

\* The core crashed while the application was quitting: the error is raised
\* and the active timer was left alone.
C16_Witness ==
    /\ last_call = "on_core_finished"
    /\ raised = "CoreCrashedError"
    /\ quitting_app
    /\ connect_timer = "active"
    /\ Count("connect_timer.stop", calls) = 0

\* The texts a chunk can decode to.
DecodedChunks == {strip(decode_utf8(c)) : c \in {d \in Chunks : decode_utf8(d) # DecodeError}}

\* C17: while the application is quitting the read slots change nothing;
\* otherwise the stdout slot changes last_core_stdout_output only and the
\* stderr slot last_core_stderr_output only, to the text of the new chunk.
C17_ReadHandlersFrame ==
    /\ [][last_call' = "on_core_stdout_read_ready" =>
            /\ UNCHANGED <<core_process, upgrade_manager, core_args, core_env,
                           core_started, core_running, core_connected, shutting_down,
                           core_finished, should_quit_app_on_core_finished,
                           use_existing_core, last_core_stderr_output, slots,
                           collaborators, calls, error_messages>>
            /\ quitting_app => (UNCHANGED last_core_stdout_output /\ raised' = None)
            /\ last_core_stdout_output' # last_core_stdout_output
                  => last_core_stdout_output' \in DecodedChunks]_vars
    /\ [][last_call' = "on_core_stderr_read_ready" =>
            /\ UNCHANGED <<core_process, upgrade_manager, core_args, core_env,
                           core_started, core_running, core_connected, shutting_down,
                           core_finished, should_quit_app_on_core_finished,
                           use_existing_core, last_core_stdout_output, slots,
                           collaborators, calls, error_messages>>
            /\ quitting_app => (UNCHANGED last_core_stderr_output /\ raised' = None)
            /\ last_core_stderr_output' # last_core_stderr_output
                  => last_core_stderr_output' \in DecodedChunks]_vars

\* Output arrived while the application was quitting and was not read; the
\* chunk read before is still there.
C17_Witness ==
    /\ last_call = "on_core_stdout_read_ready"
    /\ quitting_app
    /\ QuitCalls = 0
    /\ last_core_stdout_output # <<>>
    /\ last_core_stderr_output = <<>>

\* C18: the message of a crash is built from last_core_stderr_output when
\* that is not empty and from last_core_stdout_output otherwise, whichever
\* slot ran last before the exit.
C18_StderrPreferred ==
    [][(~core_finished /\ core_finished' /\ ~shutting_down) =>
         \E r \in error_messages' :
            /\ r.last_core_output = (IF last_core_stderr_output # <<>>
                                     THEN last_core_stderr_output
                                     ELSE last_core_stdout_output)
            /\ r.message \in format_error_message(r.exit_code, r.exit_status,
                                                  r.last_core_output)
            /\ error_messages' = {r}]_vars

\* Both streams had delivered different text; the crash message quotes stderr.
C18_Witness ==
    /\ last_call = "on_core_finished"
    /\ last_core_stderr_output # <<>>
    /\ last_core_stdout_output # <<>>
    /\ last_core_stdout_output # last_core_stderr_output
    /\ \E r \in error_messages :
          /\ r.last_core_output = last_core_stderr_output
          /\ EndsWith(r.message, QuotedLines(Lines(last_core_stderr_output)))

\* C19: core_running implies core_started, not core_finished and a held
\* process (use_existing_core False); core_started never goes back to False.
C19_PhaseFlags ==
    /\ [](core_running => (core_started /\ ~core_finished /\ core_process # 0
                           /\ ~use_existing_core))
    /\ [][core_started => core_started']_vars

\* The process is up; later it has exited and core_started still holds.
C19_Witness ==
    /\ core_started
    /\ core_finished
    /\ ~core_running
    /\ core_process # 0

\* C20: when the stop() that set shutting_down sent no shutdown request,
\* none is ever sent; the initial connection error and the upgrader's
\* completion still launch the process; its exit raises no CoreCrashedError.
C20_StopBeforeLaunch ==
    /\ [][(shutting_down /\ ShutdownRequests = 0) => ShutdownRequests' = 0]_vars
    /\ [][(shutting_down /\ last_call' = "on_event_manager_initial_error"
              /\ upgrade_manager = None)
            => (Len(procs') = Len(procs) + 1 /\ core_process' = Len(procs'))]_vars
    /\ [][(shutting_down /\ upgrader = "running" /\ upgrader' = "finished")
            => (Len(procs') = Len(procs) + 1 /\ core_process' = Len(procs'))]_vars
    /\ [][(shutting_down /\ ~core_finished /\ core_finished')
            => (raised' = None /\ error_messages' = error_messages)]_vars

\* stop() ran twice, the first time before anything was launched; the
\* process launched afterwards never got a shutdown request and its exit
\* counted as expected.
C20_Witness ==
    /\ last_call = "on_core_finished"
    /\ stop_calls = 2
    /\ shutting_down
    /\ ShutdownRequests = 0
    /\ ~events_manager_shutting_down
    /\ Len(procs) = 1
    /\ raised = None
    /\ error_messages = {}

====
